---- MODULE Spec2Model ----
(***************************************************************************)
(* A model of the user CRUD service of src/index.js: the Express           *)
(* middleware stack, the validation middlewares, the six route handlers,   *)
(* the user store they call, and the shutdown handler.                     *)
(*                                                                         *)
(* Strings are sequences of one-character strings, so that trimming,       *)
(* lower-casing, the address pattern and parseInt are computed character   *)
(* by character, as JavaScript computes them.                              *)
(***************************************************************************)
EXTENDS Integers, Sequences, FiniteSets, Bags, TLC

VARIABLES
    users,      \* the user table: id -> [name, email, age]
    nextId,     \* the store's id sequence: the id the next insert gets
    everIds,    \* history: every id that was ever persisted
    inflight,   \* bag of requests that await their storage round trip
    last,       \* the response sent by the latest step (<<>> if it sent none)
    listening,  \* the HTTP server accepts new connections
    shutdownPc, \* "idle" | "disconnecting" (shutdown awaits prisma.$disconnect)
    exitCode    \* <<>> while the process runs, <<code>> once it has exited

vars == <<users, nextId, everIds, inflight, last, listening, shutdownPc, exitCode>>

\* ------------------------------------------------------------------ bounds

\* Inserts are accepted while the id sequence is at most MaxId.
MaxId == 3
\* Requests that may await the store at the same time.
MaxInFlight == 2

\* ----------------------------------------------------------------- strings

IsSpace(c) == c \in {" ", "\t"}

UpperLetters == <<"A", "B", "C", "D", "E", "F", "G", "H", "I", "J", "K", "L", "M",
                  "N", "O", "P", "Q", "R", "S", "T", "U", "V", "W", "X", "Y", "Z">>
LowerLetters == <<"a", "b", "c", "d", "e", "f", "g", "h", "i", "j", "k", "l", "m",
                  "n", "o", "p", "q", "r", "s", "t", "u", "v", "w", "x", "y", "z">>

\* String.prototype.toLowerCase, on one character.
LowerChar(c) ==
    IF \E k \in 1..Len(UpperLetters) : UpperLetters[k] = c
    THEN LowerLetters[CHOOSE k \in 1..Len(UpperLetters) : UpperLetters[k] = c]
    ELSE c

toLowerCase(s) == [i \in 1..Len(s) |-> LowerChar(s[i])]

RECURSIVE TrimStart(_)
TrimStart(s) == IF s = <<>> \/ ~IsSpace(Head(s)) THEN s ELSE TrimStart(Tail(s))

RECURSIVE TrimEnd(_)
TrimEnd(s) ==
    IF s = <<>> \/ ~IsSpace(s[Len(s)]) THEN s ELSE TrimEnd(SubSeq(s, 1, Len(s) - 1))

\* String.prototype.trim
trim(s) == TrimEnd(TrimStart(s))

\* s.match(/^[^\s@]+@[^\s@]+\.[^\s@]+$/) is not null: one "@" at i with a
\* non-empty local part, a "." at j with something between and after, and no
\* white space or other "@" anywhere.
EmailPattern(s) ==
    \E i \in 1..Len(s) : \E j \in 1..Len(s) :
        /\ s[i] = "@"
        /\ s[j] = "."
        /\ 1 < i
        /\ i + 1 < j
        /\ j < Len(s)
        /\ \A k \in (1..Len(s)) \ {i} : ~IsSpace(s[k]) /\ s[k] # "@"

\* The digits of parseInt, by value: index - 1.
DigitChars == <<"0", "1", "2", "3", "4", "5", "6", "7", "8", "9",
                "a", "b", "c", "d", "e", "f">>

IsDigit(c, radix) == \E d \in 1..radix : DigitChars[d] = LowerChar(c)

DigitVal(c) == (CHOOSE d \in 1..Len(DigitChars) : DigitChars[d] = LowerChar(c)) - 1

\* The longest prefix of s made of digits of the radix.
RECURSIVE DigitPrefix(_, _)
DigitPrefix(s, radix) ==
    IF s = <<>> \/ ~IsDigit(Head(s), radix) THEN <<>>
    ELSE <<Head(s)>> \o DigitPrefix(Tail(s), radix)

RECURSIVE DigitsValue(_, _, _)
DigitsValue(s, radix, acc) ==
    IF s = <<>> THEN acc
    ELSE DigitsValue(Tail(s), radix, acc * radix + DigitVal(Head(s)))

\* parseInt(string) with no radix argument: leading white space is skipped, a
\* sign is read, "0x" selects radix 16, and the longest prefix of digits is
\* the value; whatever follows is ignored. <<>> is NaN, <<n>> the integer n.
parseInt(str) ==
    LET t == TrimStart(str)
        neg == t # <<>> /\ Head(t) = "-"
        u == IF t # <<>> /\ Head(t) \in {"+", "-"} THEN Tail(t) ELSE t
        hex == Len(u) >= 2 /\ u[1] = "0" /\ u[2] \in {"x", "X"}
        radix == IF hex THEN 16 ELSE 10
        ds == DigitPrefix(IF hex THEN SubSeq(u, 3, Len(u)) ELSE u, radix)
        v == DigitsValue(ds, radix, 0)
    IN IF ds = <<>> THEN <<>> ELSE <<IF neg THEN 0 - v ELSE v>>

\* ------------------------------------------------------------- JSON values

\* A value of a parsed body: t is its kind, s its characters (a string), n and
\* frac its integer part and its tenths (a number), b its truth (a boolean).
J(t, s, n, frac, b) == [t |-> t, s |-> s, n |-> n, frac |-> frac, b |-> b]

JUndef == J("undefined", <<>>, 0, 0, FALSE)   \* the key is absent
JNull == J("null", <<>>, 0, 0, FALSE)
JArr == J("array", <<>>, 0, 0, FALSE)
JObj == J("object", <<>>, 0, 0, FALSE)
JStr(s) == J("string", s, 0, 0, FALSE)
JNum(n) == J("number", <<>>, n, 0, FALSE)
JFrac(n, f) == J("number", <<>>, n, f, FALSE)
JBool(b) == J("boolean", <<>>, 0, 0, b)

\* typeof v
TypeOf(v) ==
    CASE v.t \in {"null", "array", "object"} -> "object"
      [] OTHER -> v.t

\* !v is false
Truthy(v) ==
    CASE v.t = "string" -> v.s # <<>>
      [] v.t = "number" -> ~(v.n = 0 /\ v.frac = 0)
      [] v.t = "boolean" -> v.b
      [] v.t \in {"array", "object"} -> TRUE
      [] OTHER -> FALSE

\* typeof age !== 'number' || age < 0 || !Number.isInteger(age)
BadAge(v) == TypeOf(v) # "number" \/ v.n < 0 \/ v.frac # 0

\* ------------------------------------------------- requests and responses

\* An error passed to next(err): body-parser's SyntaxError carries status 400
\* and the body it could not parse; a TypeError carries neither.
NoErr == [name |-> "none", status |-> 0, body |-> FALSE]
BodySyntaxError == [name |-> "SyntaxError", status |-> 400, body |-> TRUE]
TypeError == [name |-> "TypeError", status |-> 0, body |-> FALSE]
\* A storage failure other than P2025 and P2002, as the handlers pass it on.
StoreError == [name |-> "PrismaClientError", status |-> 0, body |-> FALSE]

\* What a middleware or a handler does with a request: it sends the response,
\* calls next(), calls next(err) (or throws err), or awaits a store operation.
Send(status, error, body) ==
    [k |-> "send", status |-> status, error |-> error, body |-> body]
NextOk(req) == [k |-> "next", req |-> req]
NextErr(err, req) == [k |-> "error", err |-> err, req |-> req]
Await(op, id, data, req) ==
    [k |-> "await", op |-> op, id |-> id, data |-> data, req |-> req]

\* The data of a store call: <<>> is undefined (the field is not supplied).
NoData == [name |-> <<>>, email |-> <<>>, age |-> <<>>]

\* ----------------------------------------------------------- the middlewares

\* JSON parsing error middleware (registered before express.json)
jsonErrorHandler(err, req) ==
    IF err.name = "SyntaxError" /\ err.status = 400 /\ err.body
    THEN Send(400, "Invalid JSON", <<>>)
    ELSE NextErr(err, req)

\* express.json(): a body that does not parse is passed on as an error.
expressJson(req) ==
    IF req.body.ok THEN NextOk(req) ELSE NextErr(BodySyntaxError, req)

validateId(req) ==
    LET id == parseInt(req.params.id.s)
    IN IF id = <<>> \/ id[1] < 1
       THEN Send(400, "Invalid ID parameter", <<>>)
       ELSE NextOk([req EXCEPT !.params.id = JNum(id[1])])

errorHandler(err, req) == Send(500, "Something went wrong!", <<>>)

\* An email sanitized without the lower-casing.
sanitizeEmailKeepCase(email) == trim(email)

\* email.toLowerCase().trim()
sanitizeEmail(email) == trim(toLowerCase(email))

validateUserInput(req) ==
    LET name == req.body.name
        email == req.body.email
        age == req.body.age
    IN IF ~Truthy(name) \/ TypeOf(name) # "string" \/ Len(trim(name.s)) = 0
       THEN Send(400, "Valid name is required", <<>>)
       ELSE IF ~Truthy(email)
       THEN Send(400, "Valid email is required", <<>>)
       ELSE IF TypeOf(email) # "string"
       THEN NextErr(TypeError, req)          \* email.match is not a function
       ELSE IF ~EmailPattern(email.s)
       THEN Send(400, "Valid email is required", <<>>)
       ELSE IF age # JUndef /\ BadAge(age)
       THEN Send(400, "Age must be a positive integer", <<>>)
       ELSE NextOk([req EXCEPT !.body.name = JStr(trim(name.s)),
                               !.body.email = JStr(sanitizeEmail(email.s))])

\* ------------------------------------------------ the handlers, to the await

\* { name, email, age } of a validated body, as the data of a store call.
BodyData(body) ==
    [name |-> <<body.name.s>>,
     email |-> <<body.email.s>>,
     age |-> IF body.age = JUndef THEN <<>> ELSE <<body.age.n>>]

getUsers(req) == Await("findMany", 0, NoData, req)

getUser(req) == Await("findUniqueOrThrow", req.params.id.n, NoData, req)

postUser(req) == Await("create", 0, BodyData(req.body), req)

putUser(req) == Await("update", req.params.id.n, BodyData(req.body), req)

\* The handler of PATCH without its check for an empty updateData.
patchUserNoEmptyCheck(req) ==
    LET name == req.body.name
        email == req.body.email
        age == req.body.age
    IN IF name # JUndef /\ (TypeOf(name) # "string" \/ Len(trim(name.s)) = 0)
       THEN Send(400, "Valid name is required", <<>>)
       ELSE IF email # JUndef /\ ~Truthy(email)
       THEN Send(400, "Valid email is required", <<>>)
       ELSE IF email # JUndef /\ TypeOf(email) # "string"
       THEN NextErr(TypeError, req)
       ELSE IF email # JUndef /\ ~EmailPattern(email.s)
       THEN Send(400, "Valid email is required", <<>>)
       ELSE IF age # JUndef /\ BadAge(age)
       THEN Send(400, "Age must be a positive integer", <<>>)
       ELSE Await("update", req.params.id.n,
                  [name |-> IF name = JUndef THEN <<>> ELSE <<trim(name.s)>>,
                   email |-> IF email = JUndef THEN <<>>
                             ELSE <<sanitizeEmail(email.s)>>,
                   age |-> IF age = JUndef THEN <<>> ELSE <<age.n>>],
                  req)

\* A TypeError thrown inside the try block is caught and passed to next(error).
patchUser(req) ==
    LET name == req.body.name
        email == req.body.email
        age == req.body.age
        updateData ==
            [name |-> IF name = JUndef THEN <<>> ELSE <<trim(name.s)>>,
             email |-> IF email = JUndef THEN <<>>
                       ELSE <<sanitizeEmail(email.s)>>,
             age |-> IF age = JUndef THEN <<>> ELSE <<age.n>>]
    IN IF name # JUndef /\ (TypeOf(name) # "string" \/ Len(trim(name.s)) = 0)
       THEN Send(400, "Valid name is required", <<>>)
       ELSE IF email # JUndef /\ ~Truthy(email)
       THEN Send(400, "Valid email is required", <<>>)
       ELSE IF email # JUndef /\ TypeOf(email) # "string"
       THEN NextErr(TypeError, req)          \* email.match is not a function
       ELSE IF email # JUndef /\ ~EmailPattern(email.s)
       THEN Send(400, "Valid email is required", <<>>)
       ELSE IF age # JUndef /\ BadAge(age)
       THEN Send(400, "Age must be a positive integer", <<>>)
       ELSE IF updateData = NoData
       THEN Send(400, "No valid update data provided", <<>>)
       ELSE Await("update", req.params.id.n, updateData, req)

deleteUser(req) == Await("delete", req.params.id.n, NoData, req)

\* 404 handler for undefined routes
notFound(req) == Send(404, "Route not found", <<>>)

\* ------------------------------------------------------------ the user store

\* A row of the table, as the store returns it.
WithId(id, u) == [id |-> id, name |-> u.name, email |-> u.email, age |-> u.age]

StoreResult(code, us, nid, body) ==
    [code |-> code, users |-> us, nextId |-> nid, body |-> body]

RECURSIVE ListFrom(_, _)
ListFrom(us, ids) ==
    IF ids = {} THEN <<>>
    ELSE LET m == CHOOSE i \in ids : \A j \in ids : i <= j
         IN <<WithId(m, us[m])>> \o ListFrom(us, ids \ {m})

\* findMany({ orderBy: { id: 'asc' } })
StoreFindMany == StoreResult("ok", users, nextId, ListFrom(users, DOMAIN users))

\* findUniqueOrThrow({ where: { id } })
StoreFindUniqueOrThrow(id) ==
    IF id \in DOMAIN users
    THEN StoreResult("ok", users, nextId, <<WithId(id, users[id])>>)
    ELSE StoreResult("P2025", users, nextId, <<>>)

\* An insert that takes the id after the highest id in the table.
StoreCreateAfterHighest(data) ==
    LET id == IF users = <<>> THEN 1
              ELSE 1 + CHOOSE i \in DOMAIN users : \A j \in DOMAIN users : j <= i
        u == [name |-> data.name[1], email |-> data.email[1], age |-> data.age]
    IN IF \E i \in DOMAIN users : users[i].email = data.email[1]
       THEN StoreResult("P2002", users, nextId, <<>>)
       ELSE StoreResult("ok", users @@ (id :> u), nextId + 1, <<WithId(id, u)>>)

\* create({ data }): the store assigns the next id of its sequence; an
\* undefined age is stored as not set; the email must be new.
StoreCreate(data) ==
    LET u == [name |-> data.name[1], email |-> data.email[1], age |-> data.age]
    IN IF \E i \in DOMAIN users : users[i].email = data.email[1]
       THEN StoreResult("P2002", users, nextId, <<>>)
       ELSE StoreResult("ok", users @@ (nextId :> u), nextId + 1,
                        <<WithId(nextId, u)>>)

\* update({ where: { id }, data }): the fields of data that are not undefined
\* overwrite the row's; the others are left as they are.
StoreUpdate(id, data) ==
    IF id \notin DOMAIN users
    THEN StoreResult("P2025", users, nextId, <<>>)
    ELSE IF data.email # <<>> /\ \E j \in DOMAIN users \ {id} :
                                     users[j].email = data.email[1]
    THEN StoreResult("P2002", users, nextId, <<>>)
    ELSE LET u == [name |-> IF data.name = <<>> THEN users[id].name
                            ELSE data.name[1],
                   email |-> IF data.email = <<>> THEN users[id].email
                             ELSE data.email[1],
                   age |-> IF data.age = <<>> THEN users[id].age ELSE data.age]
         IN StoreResult("ok", [users EXCEPT ![id] = u], nextId, <<WithId(id, u)>>)

\* delete({ where: { id } })
StoreDelete(id) ==
    IF id \notin DOMAIN users
    THEN StoreResult("P2025", users, nextId, <<>>)
    ELSE StoreResult("ok", [i \in DOMAIN users \ {id} |-> users[i]], nextId,
                     <<WithId(id, users[id])>>)

\* The store operation a handler awaits.
StoreExec(op, id, data) ==
    CASE op = "findMany" -> StoreFindMany
      [] op = "findUniqueOrThrow" -> StoreFindUniqueOrThrow(id)
      [] op = "create" -> StoreCreate(data)
      [] op = "update" -> StoreUpdate(id, data)
      [] op = "delete" -> StoreDelete(id)

\* ------------------------------------------ the handlers, after the await

getUsersDone(r, req) ==
    IF r.code = "ok" THEN Send(200, "", r.body) ELSE NextErr(StoreError, req)

getUserDone(r, req) ==
    IF r.code = "ok" THEN Send(200, "", r.body)
    ELSE IF r.code = "P2025" THEN Send(404, "User not found", <<>>)
    ELSE NextErr(StoreError, req)

postUserDone(r, req) ==
    IF r.code = "ok" THEN Send(201, "", r.body)
    ELSE IF r.code = "P2002" THEN Send(409, "Email already exists", <<>>)
    ELSE NextErr(StoreError, req)

putUserDone(r, req) ==
    IF r.code = "ok" THEN Send(200, "", r.body)
    ELSE IF r.code = "P2025" THEN Send(404, "User not found", <<>>)
    ELSE IF r.code = "P2002" THEN Send(409, "Email already exists", <<>>)
    ELSE NextErr(StoreError, req)

patchUserDone(r, req) ==
    IF r.code = "ok" THEN Send(200, "", r.body)
    ELSE IF r.code = "P2025" THEN Send(404, "User not found", <<>>)
    ELSE IF r.code = "P2002" THEN Send(409, "Email already exists", <<>>)
    ELSE NextErr(StoreError, req)

deleteUserDone(r, req) ==
    IF r.code = "ok" THEN Send(200, "", r.body)
    ELSE IF r.code = "P2025" THEN Send(404, "User not found", <<>>)
    ELSE NextErr(StoreError, req)

\* ------------------------------------------------------ the middleware stack

\* The layers of the app, in the order the source registers them.
Stack == <<"cors", "logger", "jsonErrorHandler", "expressJson",
           "getUsers", "getUser", "postUser", "putUser", "patchUser",
           "deleteUser", "notFound", "errorHandler">>

\* A layer whose function takes (err, req, res, next) runs only for an error.
IsErrorLayer(l) == l \in {"jsonErrorHandler", "errorHandler"}

Routes ==
    [getUsers |-> [method |-> "GET", path |-> "/users"],
     getUser |-> [method |-> "GET", path |-> "/users/:id"],
     postUser |-> [method |-> "POST", path |-> "/users"],
     putUser |-> [method |-> "PUT", path |-> "/users/:id"],
     patchUser |-> [method |-> "PATCH", path |-> "/users/:id"],
     deleteUser |-> [method |-> "DELETE", path |-> "/users/:id"]]

Matches(l, req) ==
    l \in DOMAIN Routes =>
        req.method = Routes[l].method /\ req.path = Routes[l].path

\* The handler chain of each route.
getUserChain == <<"validateId", "getUser">>
postUserChain == <<"validateUserInput", "postUser">>
putUserChainBodyFirst == <<"validateUserInput", "validateId", "putUser">>
putUserChain == <<"validateId", "validateUserInput", "putUser">>
patchUserChain == <<"validateId", "patchUser">>
deleteUserChain == <<"validateId", "deleteUser">>

Chain(l) ==
    CASE l = "getUser" -> getUserChain
      [] l = "postUser" -> postUserChain
      [] l = "putUser" -> putUserChain
      [] l = "patchUser" -> patchUserChain
      [] l = "deleteUser" -> deleteUserChain
      [] OTHER -> <<l>>

Apply(f, req) ==
    CASE f = "cors" -> NextOk(req)
      [] f = "logger" -> NextOk(req)
      [] f = "expressJson" -> expressJson(req)
      [] f = "validateId" -> validateId(req)
      [] f = "validateUserInput" -> validateUserInput(req)
      [] f = "getUsers" -> getUsers(req)
      [] f = "getUser" -> getUser(req)
      [] f = "postUser" -> postUser(req)
      [] f = "putUser" -> putUser(req)
      [] f = "patchUser" -> patchUser(req)
      [] f = "deleteUser" -> deleteUser(req)
      [] f = "notFound" -> notFound(req)

ApplyError(l, err, req) ==
    CASE l = "jsonErrorHandler" -> jsonErrorHandler(err, req)
      [] l = "errorHandler" -> errorHandler(err, req)

\* The functions of one route, each run when the one before calls next().
RECURSIVE RunChain(_, _)

\* After a function of the chain has done o: the rest of the chain, fs.
ChainNext(fs, o) == IF o.k = "next" THEN RunChain(fs, o.req) ELSE o

RunChain(fs, req) ==
    IF fs = <<>> THEN NextOk(req) ELSE ChainNext(Tail(fs), Apply(Head(fs), req))

\* What layer l does with a request, or with an error: without an error the
\* error layers are skipped, and so is a route that does not match; with an
\* error every layer but the error layers is skipped.
Layer(l, req, err) ==
    IF err # NoErr
    THEN IF IsErrorLayer(l) THEN ApplyError(l, err, req) ELSE NextErr(err, req)
    ELSE IF IsErrorLayer(l) \/ ~Matches(l, req) THEN NextOk(req)
    ELSE RunChain(Chain(l), req)

\* Express's dispatch from layer i on; the walk only goes forward. The result
\* is the response sent or the store call awaited, with the layer that made
\* it. Past the last layer Express answers by itself.
RECURSIVE Run(_, _, _)

\* After layer i has done o.
RunNext(i, o) ==
    CASE o.k = "next" -> Run(i + 1, o.req, NoErr)
      [] o.k = "error" -> Run(i + 1, o.req, o.err)
      [] OTHER -> [o |-> o, layer |-> i]

Run(i, req, err) ==
    IF i > Len(Stack)
    THEN [o |-> Send(IF err = NoErr THEN 404 ELSE 500, "", <<>>), layer |-> i]
    ELSE RunNext(i, Layer(Stack[i], req, err))

\* The response to a request whose handler, at layer i, has done o after its
\* await: an error passed to next(error) goes to the layers after i.
AfterAwait(i, o) == IF o.k = "error" THEN Run(i + 1, o.req, o.err).o ELSE o

\* The rest of the handler of layer l, once its store call has returned r.
Resume(l, r, req) ==
    CASE l = "getUsers" -> getUsersDone(r, req)
      [] l = "getUser" -> getUserDone(r, req)
      [] l = "postUser" -> postUserDone(r, req)
      [] l = "putUser" -> putUserDone(r, req)
      [] l = "patchUser" -> patchUserDone(r, req)
      [] l = "deleteUser" -> deleteUserDone(r, req)

\* ----------------------------------------------------------------- inputs

Body(name, email, age) == [ok |-> TRUE, name |-> name, email |-> email, age |-> age]
\* A body that is not JSON: express.json() gets no fields out of it.
Malformed == [ok |-> FALSE, name |-> JUndef, email |-> JUndef, age |-> JUndef]
\* No body, or {}: express.json() leaves req.body = {}.
EmptyBody == Body(JUndef, JUndef, JUndef)

Request(method, path, seg, body) ==
    [method |-> method, path |-> path, params |-> [id |-> JStr(seg)], body |-> body]

EmailAB == <<"a", "@", "b", ".", "c", "o", "m">>
EmailABUpper == <<"A", "@", "B", ".", "C", "O", "M">>
EmailABPadded == <<" ">> \o EmailABUpper \o <<" ">>
EmailXY == <<"x", "@", "y", ".", "z">>

\* Path segments: ids that may exist, one that never does, the spec's invalid
\* ones, and ones that only start with an integer.
ValidSegs == {<<"1">>, <<"2">>, <<"9">>}
OtherSegs == {<<"0">>, <<"-", "5">>, <<"a", "b", "c">>, <<"1", ".", "5">>,
              <<"2", "a", "b">>, <<"0", "x", "2">>}

Names == {JUndef, JNull, JNum(7), JStr(<<>>), JStr(<<" ">>), JStr(<<"A">>),
          JStr(<<" ", "B", " ">>)}
Emails == {JUndef, JNull, JNum(0), JNum(5), JBool(FALSE), JBool(TRUE), JArr, JObj,
           JStr(<<>>), JStr(<<"a", "b">>), JStr(<<"a", "@", "b">>),
           JStr(EmailAB), JStr(EmailABUpper), JStr(EmailABPadded), JStr(EmailXY)}
Ages == {JUndef, JNull, JNum(0), JNum(-1), JFrac(1, 5), JStr(<<"1">>)}

\* Bodies of the requests served one at a time: each field varied with the
\* others valid or absent, and bodies with several invalid fields.
SeqBodies ==
    {Body(n, JStr(EmailAB), JUndef) : n \in Names}
    \cup {Body(JStr(<<"A">>), e, JUndef) : e \in Emails}
    \cup {Body(JStr(<<"A">>), JStr(EmailXY), a) : a \in Ages}
    \cup {Body(n, JUndef, JUndef) : n \in Names}
    \cup {Body(JUndef, e, JUndef) : e \in Emails}
    \cup {Body(JUndef, JUndef, a) : a \in Ages}
    \cup {Body(JStr(<<>>), JStr(<<"a", "b">>), JNum(-1)),
          Body(JUndef, JNum(5), JNum(-1)),
          Malformed}

SeqRequests ==
    {Request("POST", "/users", <<>>, b) : b \in SeqBodies}
    \cup {Request(m, "/users/:id", s, b) :
            m \in {"PUT", "PATCH"}, s \in ValidSegs, b \in SeqBodies}
    \cup {Request(m, "/users/:id", s, b) :
            m \in {"PUT", "PATCH"}, s \in OtherSegs,
            b \in {Body(JStr(<<"A">>), JStr(EmailAB), JUndef),
                   Body(JStr(<<>>), JStr(<<"a", "b">>), JNum(-1)),
                   EmptyBody}}
    \cup {Request(m, "/users/:id", s, EmptyBody) :
            m \in {"GET", "DELETE"}, s \in ValidSegs \cup OtherSegs}
    \cup {Request("GET", "/users", <<>>, EmptyBody),
          Request("GET", "/health", <<>>, EmptyBody)}

\* Requests served concurrently: creates, replaces, patches and deletes over
\* two addresses, one of them in two spellings.
ConcBodies ==
    {Body(JStr(<<"A">>), JStr(e), JUndef) : e \in {EmailAB, EmailABUpper, EmailXY}}

ConcRequests ==
    {Request("POST", "/users", <<>>, b) : b \in ConcBodies}
    \cup {Request("PUT", "/users/:id", s, Body(JStr(<<"A">>), JStr(e), JUndef)) :
            s \in {<<"1">>, <<"2">>}, e \in {EmailABUpper, EmailXY}}
    \cup {Request("PATCH", "/users/:id", s, Body(JUndef, JStr(e), JUndef)) :
            s \in {<<"1">>, <<"2">>}, e \in {EmailABUpper, EmailXY}}
    \cup {Request("DELETE", "/users/:id", s, EmptyBody) : s \in {<<"1">>, <<"2">>}}
    \cup {Request("GET", "/users", <<>>, EmptyBody)}

\* ----------------------------------------------------------------- actions

\* The response res of the request req: accessed says whether the store was
\* called for it, before is the table as it was when the step began.
Event(req, res, accessed) ==
    [req |-> req, status |-> res.status, error |-> res.error, body |-> res.body,
     accessed |-> accessed, before |-> users, everBefore |-> everIds]

Init ==
    /\ users = <<>>
    /\ nextId = 1
    /\ everIds = {}
    /\ inflight = EmptyBag
    /\ last = <<>>
    /\ listening = TRUE
    /\ shutdownPc = "idle"
    /\ exitCode = <<>>

\* A request arrives and runs through the stack, synchronously, until a
\* response is sent or a handler awaits the store.
Dispatch(req) ==
    /\ last = <<>>
    /\ listening
    /\ exitCode = <<>>
    /\ req.method = "POST" => nextId <= MaxId
    /\ \E r \in {Run(1, req, NoErr)} :
          IF r.o.k = "await"
          THEN /\ BagCardinality(inflight) < MaxInFlight
               /\ inflight' = inflight (+) SetToBag({[call |-> r.o, layer |-> r.layer,
                                                      req |-> req]})
               /\ last' = <<>>
          ELSE /\ inflight' = inflight
               /\ last' = <<Event(req, r.o, FALSE)>>
    /\ UNCHANGED <<users, nextId, everIds, listening, shutdownPc, exitCode>>

\* The store runs the awaited operation of p, atomically, and the handler
\* sends the response (or passes the error on to the layers after its own).
Complete(p) ==
    /\ last = <<>>
    /\ exitCode = <<>>
    /\ \E r \in {StoreExec(p.call.op, p.call.id, p.call.data)} :
       \E res \in {AfterAwait(p.layer, Resume(Stack[p.layer], r, p.call.req))} :
          /\ users' = r.users
          /\ nextId' = r.nextId
          /\ everIds' = everIds \cup DOMAIN r.users
          /\ last' = <<Event(p.req, res, TRUE)>>
    /\ inflight' = inflight (-) SetToBag({p})
    /\ UNCHANGED <<listening, shutdownPc, exitCode>>

\* SIGTERM, SIGINT or an uncaught exception: server.close() stops the
\* listening, and shutdown awaits prisma.$disconnect().
shutdown ==
    /\ exitCode = <<>>
    /\ shutdownPc = "idle"
    /\ listening' = FALSE
    /\ shutdownPc' = "disconnecting"
    /\ last' = <<>>
    /\ UNCHANGED <<users, nextId, everIds, inflight, exitCode>>

\* $disconnect() resolves: process.exit(0).
DisconnectResolved ==
    /\ exitCode = <<>>
    /\ shutdownPc = "disconnecting"
    /\ exitCode' = <<0>>
    /\ last' = <<>>
    /\ UNCHANGED <<users, nextId, everIds, inflight, listening, shutdownPc>>

\* $disconnect() rejects: process.exit(1).
DisconnectRejected ==
    /\ exitCode = <<>>
    /\ shutdownPc = "disconnecting"
    /\ exitCode' = <<1>>
    /\ last' = <<>>
    /\ UNCHANGED <<users, nextId, everIds, inflight, listening, shutdownPc>>

\* The response of the latest step has reached its client.
Deliver ==
    /\ last # <<>>
    /\ last' = <<>>
    /\ UNCHANGED <<users, nextId, everIds, inflight, listening, shutdownPc, exitCode>>

Arrive == \E req \in ConcRequests : Dispatch(req)

Finish == \E p \in BagToSet(inflight) : Complete(p)

\* The service under concurrent requests, with its shutdown.
Next ==
    \/ Arrive
    \/ Finish
    \/ Deliver
    \/ shutdown
    \/ DisconnectResolved
    \/ DisconnectRejected

Spec == Init /\ [][Next]_vars

ArriveAlone == inflight = EmptyBag /\ \E req \in SeqRequests : Dispatch(req)

\* The service serving one request at a time, over the wide inputs.
NextSeq ==
    \/ ArriveAlone
    \/ Finish
    \/ Deliver

SpecSeq == Init /\ [][NextSeq]_vars

\* ------------------------------------------------------------------ claims

\* The id a request names, in the integer form validateId stores.
TargetId(e) == parseInt(e.req.params.id.s)[1]

\* A segment validateId rejects: no integer can be read from it, or one below 1.
RejectedSeg(s) == parseInt(s) = <<>> \/ parseInt(s)[1] < 1

\* A segment that is wholly a decimal integer of value at least 1.
WholePositiveInt(s) ==
    /\ s # <<>>
    /\ \A k \in 1..Len(s) : IsDigit(s[k], 10)
    /\ DigitsValue(s, 10, 0) >= 1

\* A name that is a string and not empty once trimmed.
GoodName(v) == v.t = "string" /\ trim(v.s) # <<>>

\* An age that is absent or an integer >= 0.
GoodAge(v) == v = JUndef \/ (v.t = "number" /\ v.frac = 0 /\ v.n >= 0)

\* The 400 responses of the validation steps.
ValidationErrors ==
    {"Invalid ID parameter", "Valid name is required", "Valid email is required",
     "Age must be a positive integer", "No valid update data provided"}

\* C1: once the process has exited, no request is still waiting for its
\* response: every request in flight when shutdown began was answered before
\* the storage connection was released and the process exited.
C1_ExitAfterInFlight == exitCode # <<>> => inflight = EmptyBag

\* C2: a request with a malformed JSON body, on a route that parses a body, is
\* answered 400 "Invalid JSON".
C2_MalformedJsonIs400 ==
    last # <<>> =>
        LET e == last[1]
        IN (~e.req.body.ok /\ e.req.method \in {"POST", "PUT", "PATCH"}) =>
               e.status = 400 /\ e.error = "Invalid JSON"

C4_PaddedEmailStored ==
    last # <<>> =>
        LET e == last[1]
            email == trim(toLowerCase(e.req.body.email.s))
        IN (/\ e.req.method = "POST"
            /\ e.req.body.ok
            /\ GoodName(e.req.body.name)
            /\ GoodAge(e.req.body.age)
            /\ e.req.body.email.t = "string"
            /\ EmailPattern(email)
            /\ \A j \in DOMAIN e.before : e.before[j].email # email)
           => /\ e.status = 201
              /\ e.body[1].email = email
              /\ users[e.body[1].id].email = email

\* C5: the user a successful create returns has an id >= 1 that no user ever
\* persisted before it had, and is the user the table holds under that id.
C5_FreshId ==
    last # <<>> =>
        LET e == last[1]
        IN (e.req.method = "POST" /\ e.status = 201) =>
               /\ e.body[1].id >= 1
               /\ e.body[1].id \notin e.everBefore
               /\ e.body[1].id \in DOMAIN users

\* C5 witness: a create succeeded after the user with the highest id ever
\* assigned had been deleted.
C5_Witness ==
    /\ last # <<>>
    /\ last[1].req.method = "POST"
    /\ last[1].status = 201
    /\ \E i \in last[1].everBefore :
           /\ i \notin DOMAIN last[1].before
           /\ \A j \in last[1].everBefore : j <= i

\* C6: after a successful full update the user's name and email are the
\* normalized values of the request and its age is the request's age, not
\* set when the request carries none.
C6_PutOverwritesAll ==
    last # <<>> =>
        LET e == last[1]
            u == users[TargetId(e)]
        IN (e.req.method = "PUT" /\ e.status = 200) =>
               /\ u.name = trim(e.req.body.name.s)
               /\ u.email = trim(toLowerCase(e.req.body.email.s))
               /\ u.age = IF e.req.body.age = JUndef THEN <<>>
                          ELSE <<e.req.body.age.n>>

\* C7: a request answered with a validation failure made no store call and
\* left the table as it was; and a PUT whose id is rejected is answered
\* "Invalid ID parameter" whatever its body holds.
C7_ValidationBeforeStore ==
    last # <<>> =>
        LET e == last[1]
        IN /\ (e.status = 400 /\ e.error \in ValidationErrors) =>
                  ~e.accessed /\ users = e.before
           /\ (/\ e.req.method = "PUT"
               /\ e.req.path = "/users/:id"
               /\ e.req.body.ok
               /\ RejectedSeg(e.req.params.id.s))
              => e.status = 400 /\ e.error = "Invalid ID parameter"

\* C7 witness: a PUT with a rejected id and an invalid name, email and age was
\* answered, with a user persisted.
C7_Witness ==
    /\ last # <<>>
    /\ last[1].req.method = "PUT"
    /\ RejectedSeg(last[1].req.params.id.s)
    /\ ~GoodName(last[1].req.body.name)
    /\ ~GoodAge(last[1].req.body.age)
    /\ last[1].status = 400
    /\ users # <<>>

\* C8: on the routes with an id, a segment that is not wholly an integer >= 1
\* is answered 400 "Invalid ID parameter".
C8_InvalidIdRejected ==
    last # <<>> =>
        LET e == last[1]
        IN (/\ e.req.path = "/users/:id"
            /\ e.req.method \in {"GET", "PUT", "PATCH", "DELETE"}
            /\ e.req.body.ok
            /\ ~WholePositiveInt(e.req.params.id.s))
           => e.status = 400 /\ e.error = "Invalid ID parameter"

\* C9: a create or a full update with a valid name, or a patch with an email
\* (and no invalid name), whose email is not a string matching the address
\* pattern, is answered 400 "Valid email is required".
C9_BadEmailIs400 ==
    last # <<>> =>
        LET e == last[1]
            b == e.req.body
            idOk == ~RejectedSeg(e.req.params.id.s)
        IN (/\ b.ok
            /\ \/ e.req.method = "POST" /\ GoodName(b.name)
               \/ e.req.method = "PUT" /\ idOk /\ GoodName(b.name)
               \/ /\ e.req.method = "PATCH"
                  /\ idOk
                  /\ b.name = JUndef \/ GoodName(b.name)
                  /\ b.email # JUndef
            /\ ~(b.email.t = "string" /\ EmailPattern(b.email.s)))
           => e.status = 400 /\ e.error = "Valid email is required"

\* C10: a successful PATCH overwrites, in the user it names, the fields its
\* payload holds, with their normalized values, and leaves that user's other
\* fields, its id and every other user as they were; a PATCH with a valid id
\* whose payload holds none of name, email and age is answered 400 "No valid
\* update data provided" and changes nothing.
C10_PatchFrame ==
    last # <<>> =>
        LET e == last[1]
            b == e.req.body
            id == TargetId(e)
        IN /\ (e.req.method = "PATCH" /\ e.status = 200) =>
                  /\ id \in DOMAIN e.before
                  /\ DOMAIN users = DOMAIN e.before
                  /\ \A j \in DOMAIN users \ {id} : users[j] = e.before[j]
                  /\ e.body[1].id = id
                  /\ users[id].name = IF b.name = JUndef THEN e.before[id].name
                                      ELSE trim(b.name.s)
                  /\ users[id].email = IF b.email = JUndef THEN e.before[id].email
                                       ELSE trim(toLowerCase(b.email.s))
                  /\ users[id].age = IF b.age = JUndef THEN e.before[id].age
                                     ELSE <<b.age.n>>
           /\ (/\ e.req.method = "PATCH"
               /\ b.ok
               /\ ~RejectedSeg(e.req.params.id.s)
               /\ b.name = JUndef /\ b.email = JUndef /\ b.age = JUndef)
              => /\ e.status = 400
                 /\ e.error = "No valid update data provided"
                 /\ ~e.accessed
                 /\ users = e.before

\* C10 witness: a PATCH that holds only an age succeeded on a user that has a
\* name and an email, with another user persisted.
C10_Witness ==
    /\ last # <<>>
    /\ last[1].req.method = "PATCH"
    /\ last[1].status = 200
    /\ last[1].req.body.name = JUndef
    /\ last[1].req.body.email = JUndef
    /\ last[1].req.body.age # JUndef
    /\ Cardinality(DOMAIN users) = 2

====
